---------------------------- MODULE Spec2Model ----------------------------
(***************************************************************************)
(* The kernel heap allocators of kern/src/allocator: the bump allocator    *)
(* (bump.rs), the size-class bin allocator layered on it (bin.rs) and the  *)
(* alignment helpers (util.rs).  Addresses are machine words of WordBits   *)
(* bits; every arithmetic operation keeps the behaviour of its Rust        *)
(* counterpart (overflowing, saturating or checked) at that width.         *)
(***************************************************************************)
EXTENDS Integers, Sequences, FiniteSets, Bags, TLC

VARIABLES
    kind,       \* which allocator the kernel constructed: "bump" or "bin"
    start,      \* the `start` argument of Allocator::new
    current,    \* bump::Allocator.current (the bin allocator's global_pool.current)
    end,        \* bump::Allocator.end
    bins,       \* bin::Allocator.bins: one free list per size class, head first
    granted,    \* blocks on loan to callers: the bag of [ptr, size, align] of live allocations
    carved,     \* every block the bump allocator has handed out, in order: [ptr, size, bin]
    call,       \* the last call made on the allocator, with its outcome
    panicked,   \* TRUE once a call has panicked (the kernel halts)
    scen,       \* how many steps of the reference scenario the calls so far have followed
    nops,       \* number of calls made so far
    budget,     \* number of calls explored on this allocator
    refused,    \* the layouts <<size, align>> for which the bump allocator's alloc returned null
    race        \* callers sharing one allocator: the locking mode, the lock, each caller's call in progress

vars == <<kind, start, current, end, bins, granted, carved, call, panicked, scen, nops,
          budget, refused, race>>

----------------------------------------------------------------------------
(* Bounds of the model *)

\* width of usize in bits
WordBits == 20
\* number of calls explored on one allocator
MaxOps == 4
\* number of calls explored on an allocator whose free lists are filled and scanned
MaxDeepOps == 7

USIZE_MAX == 2^WordBits - 1

\* ptr::null_mut()
NULL == 0

\* Option<T>: None is the empty sequence, Some(x) the one-element sequence
None == <<>>
Some(x) == <<x>>

----------------------------------------------------------------------------
(* core integer helpers, as the code uses them *)

max(a, b) == IF a >= b THEN a ELSE b

\* usize::is_power_of_two
is_power_of_two(n) == \E k \in 0..(WordBits - 1) : n = 2^k

\* usize::saturating_add
saturating_add(a, b) == IF a + b > USIZE_MAX THEN USIZE_MAX ELSE a + b

\* usize::saturating_sub
saturating_sub(a, b) == IF a >= b THEN a - b ELSE 0

\* usize::overflowing_add: the wrapped sum and the overflow flag
overflowing_add(a, b) ==
    IF a + b > USIZE_MAX THEN <<(a + b) % (2^WordBits), TRUE>>
                         ELSE <<a + b, FALSE>>

RECURSIVE pow2_at_least(_, _)
pow2_at_least(n, p) == IF p >= n THEN p ELSE pow2_at_least(n, 2 * p)

\* usize::checked_next_power_of_two: None when the result does not fit a word
checked_next_power_of_two(n) ==
    LET p == pow2_at_least(n, 1)
    IN  IF p > USIZE_MAX THEN None ELSE Some(p)

RECURSIVE trailing_zeros(_)
\* usize::trailing_zeros of a non-zero word
trailing_zeros(n) == IF n % 2 = 1 THEN 0 ELSE 1 + trailing_zeros(n \div 2)

\* Layout::from_size_align succeeds (the condition under which unwrap() does not panic)
layout_ok(size, align) ==
    /\ is_power_of_two(align)
    /\ size <= USIZE_MAX - (align - 1)

----------------------------------------------------------------------------
(* util.rs *)

\* align_up: [panic |-> TRUE] when the assertion fails or the addition overflows
align_up(addr, align) ==
    IF ~is_power_of_two(align)
    THEN [panic |-> TRUE, n |-> 0]
    ELSE LET to_add == (align - (addr % align)) % align
             r      == overflowing_add(addr, to_add)
         IN  IF r[2] THEN [panic |-> TRUE, n |-> r[1]]
                     ELSE [panic |-> FALSE, n |-> r[1]]

----------------------------------------------------------------------------
(* bump.rs *)

\* a mutant of out_of_memory: the region's end is not checked
out_of_memory_no_limit(new_cur, e, space_allocated, size) ==
    space_allocated < size

\* a mutant of out_of_memory: the saturated sum is not detected
out_of_memory_no_sentinel(new_cur, e, space_allocated, size) ==
    new_cur > e

\* the out-of-memory test of bump::Allocator::alloc
out_of_memory(new_cur, e, space_allocated, size) ==
    new_cur > e \/ space_allocated < size

\* a mutant of bump_return_null: the alignment padding is kept on failure
bump_return_null_keeps_padding(cur, start_addr) ==
    [panic |-> FALSE, ret |-> NULL, current |-> start_addr]

\* `return ptr::null_mut()` of the out-of-memory branch: the cursor is not written
bump_return_null(cur, start_addr) ==
    [panic |-> FALSE, ret |-> NULL, current |-> cur]

\* a mutant of bump_commit: the cursor is not advanced
bump_commit_no_advance(cur, start_addr, new_cur) ==
    [panic |-> FALSE, ret |-> start_addr, current |-> cur]

\* `self.current = new_cur; start_addr as *mut u8`
bump_commit(cur, start_addr, new_cur) ==
    [panic |-> FALSE, ret |-> start_addr, current |-> new_cur]

\* bump::Allocator::alloc on cursor cur and limit e: the outcome and the new cursor
bump_alloc(cur, e, size, align) ==
    IF size = 0 \/ ~is_power_of_two(align)
    THEN [panic |-> FALSE, ret |-> NULL, current |-> cur]
    ELSE LET a == align_up(cur, align)
         IN  IF a.panic
             THEN [panic |-> TRUE, ret |-> NULL, current |-> cur]
             ELSE LET start_addr      == a.n
                      new_cur         == saturating_add(start_addr, size)
                      space_allocated == saturating_sub(new_cur, start_addr)
                  IN  IF out_of_memory(new_cur, e, space_allocated, size)
                      THEN bump_return_null(cur, start_addr)
                      ELSE bump_commit(cur, start_addr, new_cur)

\* a mutant of bump_dealloc: the block at the top of the heap is handed back
bump_dealloc_reclaims(cur, ptr, size) ==
    IF ptr + size = cur THEN ptr ELSE cur

\* a mutant of bump_dealloc: the cursor is rewound to the freed block
bump_dealloc_rewinds(cur, ptr, size) ==
    IF ptr < cur THEN ptr ELSE cur

\* bump::Allocator::dealloc: the cursor after the call (the body is empty: LEAKED)
bump_dealloc(cur, ptr, size) == cur

----------------------------------------------------------------------------
(* bin.rs *)

\* SIZES.len()
NumBins == 14

\* a mutant of SIZES: the table starts with a 4-byte class
SIZES_from_4 == [k \in 0..(NumBins - 1) |-> 2^(k + 2)]

\* The size of the memory blocks that each bin handles
SIZES == [k \in 0..(NumBins - 1) |-> 2^(k + 3)]

\* core::mem::size_of::<usize>() on the target (aarch64)
PtrSize == 8

\* a mutant of map_to_bin: the alignment is not taken into the class
map_to_bin_size_only(size, align) ==
    LET np == checked_next_power_of_two(size)
    IN  IF np = None THEN None
        ELSE LET n == saturating_sub(trailing_zeros(np[1]), 3)
             IN  IF n < NumBins THEN Some(n) ELSE None

\* a mutant of map_to_bin: a layout past the largest class goes to the largest class
map_to_bin_clamped(size, align) ==
    LET sz == max(size, align)
        np == checked_next_power_of_two(sz)
    IN  IF np = None THEN Some(NumBins - 1)
        ELSE LET n == saturating_sub(trailing_zeros(np[1]), 3)
             IN  IF n < NumBins THEN Some(n) ELSE Some(NumBins - 1)

\* a mutant of map_to_bin: a size whose next power of two overflows wraps to the
\* smallest class
map_to_bin_wraps(size, align) ==
    LET sz == max(size, align)
        np == checked_next_power_of_two(sz)
    IN  IF np = None THEN Some(0)
        ELSE LET n == saturating_sub(trailing_zeros(np[1]), 3)
             IN  IF n < NumBins THEN Some(n) ELSE None

\* map_to_bin: the bin of a layout, or None
map_to_bin(size, align) ==
    LET sz == max(size, align)
        np == checked_next_power_of_two(sz)
    IN  IF np = None THEN None
        ELSE LET n == saturating_sub(trailing_zeros(np[1]), 3)
             IN  IF n < NumBins THEN Some(n) ELSE None

\* LinkedList::push: the pushed block becomes the head
push(list, ptr) == <<ptr>> \o list

\* a mutant of node_fits: the scan takes the first node whatever its alignment
node_fits_any(value, align) == TRUE

\* a mutant of node_fits: the scan never accepts a node
node_fits_never(value, align) == FALSE

\* the predicate of the scan in alloc_from_bin
node_fits(value, align) == value % align = 0

\* a mutant of find: the scan takes the last node satisfying the predicate
find_last(list, align) ==
    LET hits == {i \in 1..Len(list) : node_fits(list[i], align)}
    IN  IF hits = {} THEN 0 ELSE CHOOSE i \in hits : \A j \in hits : i >= j

\* iter_mut().find(..): index of the first node satisfying the predicate, 0 if none
find(list, align) ==
    LET hits == {i \in 1..Len(list) : node_fits(list[i], align)}
    IN  IF hits = {} THEN 0 ELSE CHOOSE i \in hits : \A j \in hits : i <= j

\* Node::pop: unlink the node at index i, the others keep their order
pop(list, i) == [j \in 1..(Len(list) - 1) |-> IF j < i THEN list[j] ELSE list[j + 1]]

\* Allocator::alloc_from_fallback
alloc_from_fallback(cur, e, size, align) == bump_alloc(cur, e, size, align)

\* a mutant of bin_hit: the cursor moves past a block although a node is reused
bin_hit_moves_cursor(cur, bns, bin_num, i) ==
    [panic |-> FALSE, ret |-> bns[bin_num][i], current |-> cur + SIZES[bin_num],
     bins |-> [bns EXCEPT ![bin_num] = pop(bns[bin_num], i)],
     path |-> "hit", req |-> 0]

\* a mutant of bin_hit: the node is returned but stays on its list
bin_hit_no_pop(cur, bns, bin_num, i) ==
    [panic |-> FALSE, ret |-> bns[bin_num][i], current |-> cur, bins |-> bns,
     path |-> "hit", req |-> 0]

\* `Some(node) => node.pop() as *mut u8` of alloc_from_bin
bin_hit(cur, bns, bin_num, i) ==
    [panic |-> FALSE, ret |-> bns[bin_num][i], current |-> cur,
     bins |-> [bns EXCEPT ![bin_num] = pop(bns[bin_num], i)],
     path |-> "hit", req |-> 0]

\* a mutant of miss_size: the block is cut to the caller's size
miss_size_of_caller(bin_num, size) == size

\* `let size = SIZES[bin_num]`: the size asked of the fallback on a miss
miss_size(bin_num, size) == SIZES[bin_num]

\* Allocator::alloc_from_bin on bin bin_num
alloc_from_bin(cur, e, bns, bin_num, size, align) ==
    LET i == find(bns[bin_num], align)
        sz == miss_size(bin_num, size)
    IN  IF i > 0
        THEN bin_hit(cur, bns, bin_num, i)
        ELSE IF ~layout_ok(sz, align)
        THEN [panic |-> TRUE, ret |-> NULL, current |-> cur, bins |-> bns,
              path |-> "miss", req |-> sz]
        ELSE LET r == alloc_from_fallback(cur, e, sz, align)
             IN  [panic |-> r.panic, ret |-> r.ret, current |-> r.current,
                  bins |-> bns, path |-> "miss", req |-> sz]

\* a mutant of bin_alloc: the layout is not validated
bin_alloc_unchecked(cur, e, bns, size, align) ==
    LET b == map_to_bin(size, align)
    IN  IF b # None
        THEN [bin |-> b] @@ alloc_from_bin(cur, e, bns, b[1], size, align)
        ELSE LET r == alloc_from_fallback(cur, e, size, align)
             IN  [panic |-> r.panic, ret |-> r.ret, current |-> r.current,
                  bins |-> bns, path |-> "fallback", req |-> size, bin |-> None]

\* bin::Allocator::alloc
bin_alloc(cur, e, bns, size, align) ==
    IF size = 0 \/ ~is_power_of_two(align)
    THEN [panic |-> FALSE, ret |-> NULL, current |-> cur, bins |-> bns,
          path |-> "invalid", req |-> 0, bin |-> None]
    ELSE LET b == map_to_bin(size, align)
         IN  IF b # None
             THEN [bin |-> b] @@ alloc_from_bin(cur, e, bns, b[1], size, align)
             ELSE LET r == alloc_from_fallback(cur, e, size, align)
                  IN  [panic |-> r.panic, ret |-> r.ret, current |-> r.current,
                       bins |-> bns, path |-> "fallback", req |-> size, bin |-> None]

\* a mutant of bin_dealloc: the block is leaked instead of pushed
bin_dealloc_leaks(cur, bns, ptr, size, align) ==
    [panic |-> FALSE, current |-> cur, bins |-> bns, path |-> "push",
     bin |-> map_to_bin(size, align), checks |-> 1]

\* a mutant of bin_dealloc: the block goes to the list of the next larger class
bin_dealloc_next_class(cur, bns, ptr, size, align) ==
    LET b == map_to_bin(size, align)
    IN  IF b # None
        THEN LET n == IF b[1] + 1 < NumBins THEN b[1] + 1 ELSE b[1]
             IN  [panic |-> FALSE, current |-> cur,
                  bins |-> [bns EXCEPT ![n] = push(bns[n], ptr)],
                  path |-> "push", bin |-> b, checks |-> 1]
        ELSE [panic |-> FALSE, current |-> cur, bins |-> bns,
              path |-> "leak", bin |-> None, checks |-> 0]

\* a mutant of bin_dealloc: the block is put at the end of its list
bin_dealloc_appends(cur, bns, ptr, size, align) ==
    LET b == map_to_bin(size, align)
    IN  IF b # None
        THEN [panic |-> FALSE, current |-> cur,
              bins |-> [bns EXCEPT ![b[1]] = Append(bns[b[1]], ptr)],
              path |-> "push", bin |-> b, checks |-> 1]
        ELSE [panic |-> FALSE, current |-> cur, bins |-> bns,
              path |-> "leak", bin |-> None, checks |-> 0]

\* bin::Allocator::dealloc; checks counts the evaluations of the assertion
\* SIZES[n] >= size_of::<usize>()
bin_dealloc(cur, bns, ptr, size, align) ==
    LET b == map_to_bin(size, align)
    IN  IF b # None
        THEN IF SIZES[b[1]] >= PtrSize
             THEN [panic |-> FALSE, current |-> cur,
                   bins |-> [bns EXCEPT ![b[1]] = push(bns[b[1]], ptr)],
                   path |-> "push", bin |-> b, checks |-> 1]
             ELSE [panic |-> TRUE, current |-> cur, bins |-> bns,
                   path |-> "push", bin |-> b, checks |-> 1]
        ELSE [panic |-> FALSE, current |-> bump_dealloc(cur, ptr, size), bins |-> bns,
              path |-> "leak", bin |-> None, checks |-> 0]

----------------------------------------------------------------------------
(* The callers *)

\* regions [start, end) an allocator is constructed over
ScenarioRegion == <<4096, 8192>>

Regions ==
    { ScenarioRegion,
      <<4100, 4141>>,
      <<65536, 327680>>,
      <<USIZE_MAX - 12, USIZE_MAX>> }

\* layouts (size, align) the callers request
Layouts ==
    { <<0, 8>>, <<8, 3>>,
      <<8, 1>>, <<8, 8>>, <<9, 1>>, <<8, 16>>,
      <<65536, 1>>, <<65537, 1>>, <<100000, 1>>,
      <<2^(WordBits - 1) + 1, 1>> }

\* the reference scenario of the design: calls on a bin allocator over [0x1000, 0x2000)
Scenario ==
    << [op |-> "alloc",   ptr |-> NULL, size |-> 8,      align |-> 8],
       [op |-> "alloc",   ptr |-> NULL, size |-> 8,      align |-> 8],
       [op |-> "dealloc", ptr |-> ScenarioRegion[1], size |-> 8, align |-> 8],
       [op |-> "alloc",   ptr |-> NULL, size |-> 8,      align |-> 8],
       [op |-> "alloc",   ptr |-> NULL, size |-> 100000, align |-> 1] >>

OffScenario == Len(Scenario) + 1

\* the scenario position after one more call
scen_step(s, op, ptr, size, align) ==
    IF /\ s < Len(Scenario)
       /\ Scenario[s + 1] = [op |-> op, ptr |-> ptr, size |-> size, align |-> align]
    THEN s + 1
    ELSE OffScenario

\* a further call is explored: up to MaxOps calls on any allocator, and the reference
\* scenario is always followed to its end
CanCall ==
    /\ ~panicked
    /\ nops < (IF scen < OffScenario THEN max(budget, Len(Scenario)) ELSE budget)

EmptyBins == [k \in 0..(NumBins - 1) |-> <<>>]

\* the callers that share one allocator
Threads == {1, 2}

\* a caller with no call in progress
Idle ==
    [pc |-> "idle", ptr |-> NULL, size |-> 0, align |-> 0,
     r |-> [ret |-> NULL, current |-> NULL, bins |-> EmptyBins, path |-> "none",
            bin |-> None, req |-> 0, checks |-> 0]]

\* one caller at a time: every call runs from its start to its end
RaceOff == [mode |-> "off", holder |-> 0, thr |-> [t \in Threads |-> Idle]]

\* Allocator::new(start, end) of either allocator
Init ==
    /\ kind \in {"bump", "bin"}
    /\ \E r \in Regions : start = r[1] /\ current = r[1] /\ end = r[2]
    /\ bins = EmptyBins
    /\ granted = EmptyBag
    /\ carved = <<>>
    /\ call = [op |-> "new", ptr |-> NULL, size |-> 0, align |-> 0, ret |-> NULL,
               path |-> "new", bin |-> None, req |-> 0, checks |-> 0]
    /\ panicked = FALSE
    /\ scen = IF kind = "bin" /\ <<start, end>> = ScenarioRegion THEN 0 ELSE OffScenario
    /\ nops = 0
    /\ budget = MaxOps
    /\ refused = {}
    /\ race = RaceOff

\* a call of bump::Allocator::alloc(layout)
BumpAlloc(size, align) ==
    /\ kind = "bump" /\ CanCall
    /\ LET r == bump_alloc(current, end, size, align)
       IN  /\ current' = r.current
           /\ panicked' = r.panic
           /\ call' = [op |-> "alloc", ptr |-> NULL, size |-> size, align |-> align,
                       ret |-> r.ret, path |-> "bump", bin |-> None, req |-> size,
                       checks |-> 0]
           /\ granted' = IF r.ret # NULL
                         THEN granted (+) SetToBag({[ptr |-> r.ret, size |-> size,
                                                      align |-> align]})
                         ELSE granted
           /\ carved' = IF r.ret # NULL
                        THEN Append(carved, [ptr |-> r.ret, size |-> size, bin |-> None])
                        ELSE carved
           /\ refused' = IF r.ret = NULL /\ ~r.panic
                         THEN refused \cup {<<size, align>>}
                         ELSE refused
    /\ nops' = nops + 1
    /\ UNCHANGED <<kind, start, end, bins, scen, budget, race>>

\* pointers and layouts that no allocation returned
WildFrees ==
    { [ptr |-> current, size |-> 8, align |-> 8],
      [ptr |-> start, size |-> 65537, align |-> 1] }

\* a call of bump::Allocator::dealloc(ptr, layout), on a live allocation or not
BumpDealloc(g) ==
    /\ kind = "bump" /\ CanCall
    /\ current' = bump_dealloc(current, g.ptr, g.size)
    /\ granted' = IF BagIn(g, granted) THEN granted (-) SetToBag({g}) ELSE granted
    /\ call' = [op |-> "dealloc", ptr |-> g.ptr, size |-> g.size, align |-> g.align,
                ret |-> NULL, path |-> "leak", bin |-> None, req |-> 0, checks |-> 0]
    /\ nops' = nops + 1
    /\ UNCHANGED <<kind, start, end, bins, carved, panicked, scen, budget, refused, race>>

\* a call of bin::Allocator::alloc(layout)
BinAlloc(size, align) ==
    /\ kind = "bin" /\ CanCall
    /\ LET r == bin_alloc(current, end, bins, size, align)
       IN  /\ current' = r.current
           /\ bins' = r.bins
           /\ panicked' = r.panic
           /\ call' = [op |-> "alloc", ptr |-> NULL, size |-> size, align |-> align,
                       ret |-> r.ret, path |-> r.path, bin |-> r.bin, req |-> r.req,
                       checks |-> 0]
           /\ granted' = IF r.ret # NULL
                         THEN granted (+) SetToBag({[ptr |-> r.ret, size |-> size,
                                                      align |-> align]})
                         ELSE granted
           /\ carved' = IF r.ret # NULL /\ r.path # "hit"
                        THEN Append(carved, [ptr |-> r.ret, size |-> r.req, bin |-> r.bin])
                        ELSE carved
    /\ scen' = scen_step(scen, "alloc", NULL, size, align)
    /\ nops' = nops + 1
    /\ UNCHANGED <<kind, start, end, budget, refused, race>>

\* a call of bin::Allocator::dealloc(ptr, layout) on a live allocation, with its layout
BinDealloc(g) ==
    /\ kind = "bin" /\ CanCall
    /\ BagIn(g, granted)
    /\ LET r == bin_dealloc(current, bins, g.ptr, g.size, g.align)
       IN  /\ bins' = r.bins
           /\ current' = r.current
           /\ panicked' = r.panic
           /\ call' = [op |-> "dealloc", ptr |-> g.ptr, size |-> g.size, align |-> g.align,
                       ret |-> NULL, path |-> r.path, bin |-> r.bin, req |-> 0,
                       checks |-> r.checks]
    /\ granted' = granted (-) SetToBag({g})
    /\ scen' = scen_step(scen, "dealloc", g.ptr, g.size, g.align)
    /\ nops' = nops + 1
    /\ UNCHANGED <<kind, start, end, carved, budget, refused, race>>

Next ==
    \/ \E l \in Layouts : BumpAlloc(l[1], l[2])
    \/ \E g \in BagToSet(granted) \cup WildFrees : BumpDealloc(g)
    \/ \E l \in Layouts : BinAlloc(l[1], l[2])
    \/ \E g \in BagToSet(granted) : BinDealloc(g)

Spec == Init /\ [][Next]_vars

----------------------------------------------------------------------------
(* A bin allocator followed over more calls, on few layouts: its free lists grow   *)
(* to several nodes, aligned and not, before they are scanned.                     *)

\* a region whose start is not 8-byte aligned
DeepRegion == <<4100, 4141>>

\* layouts of class 0, with and without an alignment requirement, and one of class 1
DeepLayouts == { <<8, 1>>, <<8, 8>>, <<9, 1>> }

\* Allocator::new(start, end) of the bin allocator
InitDeep ==
    /\ kind = "bin"
    /\ start = DeepRegion[1] /\ current = DeepRegion[1] /\ end = DeepRegion[2]
    /\ bins = EmptyBins
    /\ granted = EmptyBag
    /\ carved = <<>>
    /\ call = [op |-> "new", ptr |-> NULL, size |-> 0, align |-> 0, ret |-> NULL,
               path |-> "new", bin |-> None, req |-> 0, checks |-> 0]
    /\ panicked = FALSE
    /\ scen = OffScenario
    /\ nops = 0
    /\ budget = MaxDeepOps
    /\ refused = {}
    /\ race = RaceOff

NextDeep ==
    \/ \E l \in DeepLayouts : BinAlloc(l[1], l[2])
    \/ \E g \in BagToSet(granted) : BinDealloc(g)

SpecDeep == InitDeep /\ [][NextDeep]_vars

----------------------------------------------------------------------------
(* Two callers on one bin allocator.  A call reads the allocator's fields, then   *)
(* writes them; with "locked" the callers hold a lock from the read to the write, *)
(* with "unlocked" the reads and writes of the two callers interleave.            *)

\* layouts the two callers request
RaceLayouts == { <<8, 8>>, <<9, 1>> }

\* a bin allocator shared by the callers, with or without a lock around each call
InitRace ==
    /\ kind = "bin"
    /\ start = ScenarioRegion[1] /\ current = ScenarioRegion[1] /\ end = ScenarioRegion[2]
    /\ bins = EmptyBins
    /\ granted = EmptyBag
    /\ carved = <<>>
    /\ call = [op |-> "new", ptr |-> NULL, size |-> 0, align |-> 0, ret |-> NULL,
               path |-> "new", bin |-> None, req |-> 0, checks |-> 0]
    /\ panicked = FALSE
    /\ scen = OffScenario
    /\ nops = 0
    /\ budget = MaxOps
    /\ refused = {}
    /\ \E m \in {"locked", "unlocked"} : race = [RaceOff EXCEPT !.mode = m]

\* caller t may start a call: it is idle and, with a lock, the lock is free
MayEnter(t) ==
    /\ race.mode # "off" /\ CanCall
    /\ race.thr[t].pc = "idle"
    /\ race.mode = "locked" => race.holder = 0

\* the lock after caller t entered
Entered(t) == IF race.mode = "locked" THEN t ELSE 0

\* alloc, first half: the reads of the cursor and of the free list, and what the call
\* computes from them
RaceAllocRead(t, size, align) ==
    /\ MayEnter(t)
    /\ LET r == bin_alloc(current, end, bins, size, align)
       IN  race' = [race EXCEPT
                       !.holder = Entered(t),
                       !.thr[t] = [pc |-> "alloc", ptr |-> NULL, size |-> size,
                                   align |-> align,
                                   r |-> [ret |-> r.ret, current |-> r.current,
                                          bins |-> r.bins, path |-> r.path,
                                          bin |-> r.bin, req |-> r.req, checks |-> 0]]]
    /\ nops' = nops + 1
    /\ UNCHANGED <<kind, start, current, end, bins, granted, carved, call, panicked, scen,
                 budget, refused>>

\* alloc, second half: the write of the cursor (a block from the bump allocator) or of
\* the list (a node unlinked), and the return
RaceAllocWrite(t) ==
    /\ race.mode # "off" /\ race.thr[t].pc = "alloc"
    /\ LET c == race.thr[t]
           r == c.r
       IN  /\ current' = IF r.path \in {"miss", "fallback"} /\ r.ret # NULL
                         THEN r.current ELSE current
           /\ bins' = IF r.path = "hit"
                      THEN [bins EXCEPT ![r.bin[1]] = r.bins[r.bin[1]]]
                      ELSE bins
           /\ call' = [op |-> "alloc", ptr |-> NULL, size |-> c.size, align |-> c.align,
                       ret |-> r.ret, path |-> r.path, bin |-> r.bin, req |-> r.req,
                       checks |-> 0]
           /\ granted' = IF r.ret # NULL
                         THEN granted (+) SetToBag({[ptr |-> r.ret, size |-> c.size,
                                                      align |-> c.align]})
                         ELSE granted
           /\ carved' = IF r.ret # NULL /\ r.path # "hit"
                        THEN Append(carved, [ptr |-> r.ret, size |-> r.req, bin |-> r.bin])
                        ELSE carved
    /\ race' = [race EXCEPT !.holder = 0, !.thr[t] = Idle]
    /\ UNCHANGED <<kind, start, end, panicked, scen, nops, budget, refused>>

\* dealloc of a live allocation, first half: the read of the list's head
RaceDeallocRead(t, g) ==
    /\ MayEnter(t)
    /\ BagIn(g, granted)
    /\ granted' = granted (-) SetToBag({g})
    /\ LET r == bin_dealloc(current, bins, g.ptr, g.size, g.align)
       IN  race' = [race EXCEPT
                       !.holder = Entered(t),
                       !.thr[t] = [pc |-> "dealloc", ptr |-> g.ptr, size |-> g.size,
                                   align |-> g.align,
                                   r |-> [ret |-> NULL, current |-> r.current,
                                          bins |-> r.bins, path |-> r.path,
                                          bin |-> r.bin, req |-> 0,
                                          checks |-> r.checks]]]
    /\ nops' = nops + 1
    /\ UNCHANGED <<kind, start, current, end, bins, carved, call, panicked, scen, budget, refused>>

\* dealloc, second half: the write of the block's link and of the list's head
RaceDeallocWrite(t) ==
    /\ race.mode # "off" /\ race.thr[t].pc = "dealloc"
    /\ LET c == race.thr[t]
           r == c.r
       IN  /\ bins' = IF r.path = "push"
                      THEN [bins EXCEPT ![r.bin[1]] = r.bins[r.bin[1]]]
                      ELSE bins
           /\ call' = [op |-> "dealloc", ptr |-> c.ptr, size |-> c.size, align |-> c.align,
                       ret |-> NULL, path |-> r.path, bin |-> r.bin, req |-> 0,
                       checks |-> r.checks]
    /\ race' = [race EXCEPT !.holder = 0, !.thr[t] = Idle]
    /\ UNCHANGED <<kind, start, current, end, granted, carved, panicked, scen, nops,
                 budget, refused>>

NextRace ==
    \/ \E t \in Threads : \E l \in RaceLayouts : RaceAllocRead(t, l[1], l[2])
    \/ \E t \in Threads : RaceAllocWrite(t)
    \/ \E t \in Threads : \E g \in BagToSet(granted) : RaceDeallocRead(t, g)
    \/ \E t \in Threads : RaceDeallocWrite(t)

SpecRace == InitRace /\ [][NextRace]_vars

----------------------------------------------------------------------------
(* Properties *)

\* a layout the callers' contract allows
valid_layout(size, align) == size > 0 /\ is_power_of_two(align)

\* [p, p + n) and [q, q + m) share no byte
Disjoint(p, n, q, m) == p + n <= q \/ q + m <= p

\* addr aligned up to align, as an unbounded integer
AlignedStart(addr, align) == addr + ((align - (addr % align)) % align)

\* the step is a call of alloc
IsAllocStep == nops' = nops + 1 /\ call'.op = "alloc"

\* C1: a non-null result p of the bin allocator's alloc for a valid layout is aligned
\* to the layout's align and [p, p + size) lies inside [start, end), whether it came
\* from a free list or from the bump allocator.
C1_AllocAlignedInRegion ==
    (kind = "bin" /\ call.op = "alloc" /\ call.ret # NULL
        /\ valid_layout(call.size, call.align))
    => /\ call.ret % call.align = 0
       /\ start <= call.ret
       /\ call.ret + call.size <= end

\* C1: an aligned request served from a free list
C1_Witness ==
    /\ kind = "bin" /\ call.op = "alloc" /\ call.path = "hit"
    /\ call.align = 16 /\ call.ret # NULL

\* C2: under contract-respecting use of the bin allocator the blocks on loan are
\* pairwise disjoint, and no block is on loan twice.
C2_GrantedDisjoint ==
    kind = "bin" =>
        \A g \in BagToSet(granted) :
            /\ CopiesIn(g, granted) = 1
            /\ \A h \in BagToSet(granted) :
                   g # h => Disjoint(g.ptr, g.size, h.ptr, h.size)

\* C2: a block reused from a free list while another block is on loan
C2_Witness ==
    /\ kind = "bin" /\ call.op = "alloc" /\ call.path = "hit"
    /\ Cardinality(BagToSet(granted)) >= 2

\* C3: any two successful allocations of the bump allocator return ranges that do
\* not overlap, whatever failed calls or deallocs lie between them.
C3_BumpNoOverlap ==
    kind = "bump" =>
        \A i, j \in 1..Len(carved) :
            i < j => Disjoint(carved[i].ptr, carved[i].size, carved[j].ptr, carved[j].size)

\* C3: two successful bump allocations with a dealloc in between
C3_Witness ==
    /\ kind = "bump" /\ Len(carved) >= 2
    /\ BagCardinality(granted) < Len(carved)
    /\ call.op = "alloc" /\ call.ret # NULL

\* C4: in the bin allocator, dealloc(p, L) of a block granted for L, with L mapping
\* to a size class, followed immediately by alloc(L) returns p again and leaves the
\* bump cursor where it was.
C4_LifoReuse ==
    [][ (/\ kind = "bin"
         /\ call.op = "dealloc" /\ call.bin # None
         /\ IsAllocStep
         /\ call'.size = call.size /\ call'.align = call.align)
        => (call'.ret = call.ptr /\ current' = current /\ ~panicked') ]_vars

\* C4: alloc(8, 8), a second alloc, dealloc of the first block, alloc(8, 8) again
C4_Witness ==
    /\ scen = 4 /\ call.op = "alloc" /\ call.path = "hit"
    /\ call.ret = Scenario[3].ptr

\* the size alloc asks the bump allocator for: the class size for a layout that maps
\* to a class of the bin allocator, the layout's size otherwise
RequestedSize(size, align) ==
    IF kind = "bin" /\ map_to_bin(size, align) # None
    THEN SIZES[map_to_bin(size, align)[1]]
    ELSE size

\* an alloc that returns null leaves the cursor and every free list as they were
C5_NullKeepsState ==
    (IsAllocStep /\ call'.ret = NULL /\ ~panicked')
    => (current' = current /\ bins' = bins /\ end' = end)

\* C5, as stated: an alloc that returns null leaves the allocator state unchanged,
\* and after a failure for lack of space any request whose aligned start plus its
\* size fits before end succeeds.
C5_Original ==
    [][ /\ C5_NullKeepsState
        /\ (/\ call.op = "alloc" /\ call.ret = NULL
            /\ valid_layout(call.size, call.align)
            /\ IsAllocStep /\ valid_layout(call'.size, call'.align)
            /\ AlignedStart(current, call'.align) + call'.size <= end)
           => call'.ret # NULL ]_vars

\* C5, amended: an alloc that returns null leaves the allocator state unchanged, and
\* in every state a valid request whose aligned start plus the size requested from
\* the bump allocator (the class size for a request that maps to a class, the layout's
\* size otherwise) fits before end succeeds.
C5_Amended ==
    [][ /\ C5_NullKeepsState
        /\ (/\ IsAllocStep /\ valid_layout(call'.size, call'.align)
            /\ AlignedStart(current, call'.align)
                   + RequestedSize(call'.size, call'.align) <= end)
           => (call'.ret # NULL /\ ~panicked') ]_vars

\* C5: a valid request failed for lack of space where alignment padding was needed
C5_Witness ==
    /\ call.op = "alloc" /\ valid_layout(call.size, call.align)
    /\ call.ret = NULL /\ ~panicked
    /\ current > start /\ current % call.align # 0

\* C6: in both allocators an alloc with size 0 or an align that is not a power of
\* two returns null and leaves the cursor and every free list unchanged.
C6_InvalidLayoutRejected ==
    [][ (IsAllocStep /\ ~valid_layout(call'.size, call'.align))
        => (/\ call'.ret = NULL /\ ~panicked'
            /\ current' = current /\ bins' = bins) ]_vars

\* C6: a zero-size request on a bin allocator that holds free blocks
C6_Witness ==
    /\ kind = "bin" /\ call.op = "alloc" /\ call.size = 0
    /\ call.ret = NULL /\ bins # EmptyBins /\ current > start

\* C7: alloc never panics on a well-formed request.
C7_NoPanic ==
    ~(panicked /\ call.op = "alloc" /\ valid_layout(call.size, call.align))

\* C8: every block carved for class k and every node on class k's free list starts
\* at a multiple of the class's block size 2^(k+3); stated for the allocators whose
\* region itself starts at a multiple of the largest block size.
C8_ClassAligned ==
    (kind = "bin" /\ start % SIZES[NumBins - 1] = 0) =>
        /\ \A k \in 0..(NumBins - 1) :
               \A i \in 1..Len(bins[k]) : bins[k][i] % SIZES[k] = 0
        /\ \A i \in 1..Len(carved) :
               carved[i].bin # None => carved[i].ptr % SIZES[carved[i].bin[1]] = 0

\* the smallest class whose block size is at least max(size, align), None past the
\* largest class
SmallestClass(size, align) ==
    LET n == max(size, align)
        fit == {k \in 0..(NumBins - 1) : SIZES[k] >= n}
    IN  IF fit = {} THEN None
        ELSE Some(CHOOSE k \in fit : \A j \in fit : k <= j)

\* sizes and aligns around every power of two of the word
SampleSizes ==
    (0..20) \cup {USIZE_MAX}
        \cup UNION {{2^j - 1, 2^j, 2^j + 1} : j \in 3..(WordBits - 1)}
SampleAligns == {0, 3} \cup {2^j : j \in 0..(WordBits - 1)}

\* C9: map_to_bin returns the smallest class k with 2^(k+3) >= max(size, align),
\* and no class when max(size, align) > 65536; (8,1) -> 0, (9,1) -> 1,
\* (65536,1) -> 13, (65537,1) -> no class.
C9_MapToBin ==
    /\ (kind = "bin" /\ call.path \in {"hit", "miss", "fallback", "push", "leak"})
       => /\ call.bin = SmallestClass(call.size, call.align)
          /\ (max(call.size, call.align) > 65536 => call.bin = None)
          /\ (<<call.size, call.align>> = <<8, 1>> => call.bin = Some(0))
          /\ (<<call.size, call.align>> = <<9, 1>> => call.bin = Some(1))
          /\ (<<call.size, call.align>> = <<65536, 1>> => call.bin = Some(13))
          /\ (<<call.size, call.align>> = <<65537, 1>> => call.bin = None)
    /\ nops = 0 =>
          \A sz \in SampleSizes : \A al \in SampleAligns :
              map_to_bin(sz, al) = SmallestClass(sz, al)

\* C9: a request of 65537 bytes found no class
C9_Witness ==
    /\ kind = "bin" /\ call.op = "alloc" /\ call.path = "fallback"
    /\ <<call.size, call.align>> = <<65537, 1>> /\ call.bin = None

\* C10: on a bin allocator over [0x1000, 0x2000), alloc(8,8), alloc(8,8),
\* dealloc(0x1000,8,8), alloc(8,8), alloc(100000,1) yield 0x1000, 0x1008, nothing,
\* 0x1000, null; the last request goes to the bump fallback and the cursor stays at
\* 0x1010 from the second allocation on.
C10_Scenario ==
    /\ scen = 1 => (call.ret = 4096 /\ current = 4104)
    /\ scen = 2 => (call.ret = 4104 /\ current = 4112)
    /\ scen = 3 => (bins[0] = <<4096>> /\ current = 4112)
    /\ scen = 4 => (call.ret = 4096 /\ call.path = "hit" /\ current = 4112)
    /\ scen = 5 => (/\ call.ret = NULL /\ call.path = "fallback" /\ ~panicked
                    /\ current = 4112 /\ bins = EmptyBins)

\* C10: the scenario has run to its end
C10_Witness ==
    /\ scen = Len(Scenario) /\ nops = Len(Scenario)
    /\ call.size = 100000

\* the step is a call of dealloc
IsDeallocStep == nops' = nops + 1 /\ call'.op = "dealloc"

\* C11: the bump cursor stays inside [start, end] and no operation of either
\* allocator, failed or successful, ever decreases it.
C11_CursorMonotone ==
    [][ /\ start <= current /\ current <= end
        /\ start' <= current' /\ current' <= end'
        /\ current' >= current
        /\ start' = start /\ end' = end ]_vars

\* C11: a block was given back to a free list and the cursor is still above start
C11_Witness ==
    /\ kind = "bin" /\ call.op = "dealloc" /\ call.path = "push"
    /\ current > start

\* the carved block at index i is no longer on loan
Freed(i) == \A g \in BagToSet(granted) : g.ptr # carved[i].ptr

\* C12: the bump allocator's dealloc changes neither the cursor nor end, for every
\* pointer and layout, and a freed block is never returned by a later bump alloc.
C12_BumpDeallocNoop ==
    [][ kind = "bump" =>
        /\ IsDeallocStep => (current' = current /\ end' = end /\ ~panicked')
        /\ (IsAllocStep /\ call'.ret # NULL) =>
               \A i \in 1..Len(carved) :
                   Freed(i) => Disjoint(carved[i].ptr, carved[i].size,
                                        call'.ret, call'.size) ]_vars

\* C12: a bump allocation made after the first block was freed
C12_Witness ==
    /\ kind = "bump" /\ call.op = "alloc" /\ call.ret # NULL
    /\ Len(carved) = 2 /\ Freed(1)

\* C13: for a valid layout beyond the largest class the bin allocator's alloc is the
\* bump allocator's alloc on the same layout (result, cursor, no free list touched),
\* and its dealloc changes neither a free list nor the cursor.
C13_BeyondClassesIsBump ==
    [][ (/\ kind = "bin" /\ nops' = nops + 1
         /\ valid_layout(call'.size, call'.align)
         /\ max(call'.size, call'.align) > SIZES[NumBins - 1])
        => IF call'.op = "alloc"
           THEN LET r == bump_alloc(current, end, call'.size, call'.align)
                IN  /\ call'.ret = r.ret /\ current' = r.current
                    /\ panicked' = r.panic /\ bins' = bins
           ELSE bins' = bins /\ current' = current /\ ~panicked' ]_vars

\* C13: a block of 65537 bytes was allocated and then freed
C13_Witness ==
    /\ kind = "bin" /\ call.op = "dealloc" /\ call.path = "leak"
    /\ call.size = 65537 /\ current >= start + 65537

\* every class of the table holds blocks of at least a pointer
TableHoldsPointers == \A k \in 0..(NumBins - 1) : SIZES[k] >= PtrSize

\* C14, as stated: no class smaller than a pointer is in the table, and this is
\* enforced when the allocator is constructed, not when a block is freed.
C14_Original ==
    /\ TableHoldsPointers
    /\ (kind = "bin" /\ call.op = "new") => call.checks >= 1
    /\ (kind = "bin" /\ call.op = "dealloc") => call.checks = 0

\* C14, amended: no class smaller than a pointer is in the table; the construction
\* of the allocator checks nothing, and every dealloc that maps to a class evaluates
\* the check block size >= pointer width, which passes.
C14_Amended ==
    /\ TableHoldsPointers
    /\ call.op = "new" => call.checks = 0
    /\ (kind = "bin" /\ call.op = "dealloc" /\ call.bin # None)
           => (call.checks = 1 /\ ~panicked)
    /\ (call.op = "dealloc" /\ call.bin = None) => call.checks = 0

\* C14: a block was freed into the smallest class
C14_Witness ==
    /\ kind = "bin" /\ call.op = "dealloc" /\ call.bin = Some(0)
    /\ call.checks = 1 /\ ~panicked /\ bins[0] # <<>>

\* all free-list nodes, over the classes
AllNodes == UNION {{bins[k][i] : i \in 1..Len(bins[k])} : k \in 0..(NumBins - 1)}

\* C16: under contract-respecting use every free list is finite and holds no address
\* twice (the intrusive list has no cycle), no address is on two lists, and a scan
\* ends by returning a node or by falling back to the bump allocator.
C16_FreeListsAcyclic ==
    kind = "bin" =>
        /\ \A k \in 0..(NumBins - 1) :
               /\ Len(bins[k]) <= Len(carved)
               /\ \A i, j \in 1..Len(bins[k]) : i # j => bins[k][i] # bins[k][j]
        /\ \A k, l \in 0..(NumBins - 1) :
               k # l => \A i \in 1..Len(bins[k]) : \A j \in 1..Len(bins[l]) :
                           bins[k][i] # bins[l][j]
        /\ AllNodes \subseteq {carved[i].ptr : i \in 1..Len(carved)}
        /\ (call.op = "alloc" /\ call.bin # None) => call.path \in {"hit", "miss"}

\* C16: a scan went over a non-empty list, found no node and fell back
C16_Witness ==
    /\ kind = "bin" /\ call.op = "alloc" /\ call.path = "miss" /\ call.ret # NULL
    /\ call.bin # None /\ bins[call.bin[1]] # <<>>

\* C17: for a valid layout the bump allocator's alloc succeeds iff a + size <= end,
\* a the cursor aligned up; on success it returns a and the cursor becomes a + size,
\* on failure it returns null.
C17_BumpAllocExact ==
    [][ (kind = "bump" /\ IsAllocStep /\ valid_layout(call'.size, call'.align))
        => LET a == AlignedStart(current, call'.align)
           IN  /\ ~panicked'
               /\ call'.ret # NULL <=> a + call'.size <= end
               /\ call'.ret # NULL => (call'.ret = a /\ current' = a + call'.size)
               /\ call'.ret = NULL => current' = current ]_vars

\* C18: when the aligned cursor a exists and a + size exceeds the largest address,
\* the bump allocator's alloc returns null and leaves the cursor unchanged, also
\* when end is the largest address.
C18_NoWrappedPointer ==
    [][ (/\ kind = "bump" /\ IsAllocStep /\ valid_layout(call'.size, call'.align)
         /\ AlignedStart(current, call'.align) <= USIZE_MAX
         /\ AlignedStart(current, call'.align) + call'.size > USIZE_MAX)
        => (call'.ret = NULL /\ current' = current /\ ~panicked') ]_vars

\* C18: such a request on an allocator whose end is the largest address
C18_Witness ==
    /\ kind = "bump" /\ end = USIZE_MAX
    /\ call.op = "alloc" /\ valid_layout(call.size, call.align)
    /\ call.ret = NULL /\ ~panicked
    /\ AlignedStart(current, call.align) <= USIZE_MAX
    /\ AlignedStart(current, call.align) + call.size > USIZE_MAX

\* C19: a bin-allocator alloc of class k that misses the free list takes one block
\* of 2^(k+3) bytes at the caller's alignment from the bump allocator: the result is
\* the aligned cursor, the cursor ends 2^(k+3) past it, and the blocks carved for
\* the classes have their class's size and do not overlap one another.
C19_MissCarvesClassBlock ==
    [][ /\ (kind = "bin" /\ IsAllocStep /\ call'.path = "miss" /\ call'.ret # NULL)
           => /\ call'.req = 2^(call'.bin[1] + 3)
              /\ call'.ret = AlignedStart(current, call'.align)
              /\ current' = call'.ret + 2^(call'.bin[1] + 3)
              /\ bins' = bins
        /\ kind = "bin" =>
              \A i, j \in 1..Len(carved') :
                  /\ carved'[i].bin # None => carved'[i].size = 2^(carved'[i].bin[1] + 3)
                  /\ i < j => Disjoint(carved'[i].ptr, carved'[i].size,
                                       carved'[j].ptr, carved'[j].size) ]_vars

\* C19: a request smaller than its class missed the list and got a class block
C19_Witness ==
    /\ kind = "bin" /\ call.op = "alloc" /\ call.path = "miss" /\ call.ret # NULL
    /\ call.size < call.req /\ call.align = 16 /\ Len(carved) >= 2

\* C20: a bin-allocator alloc of class k is served from class k's free list iff the
\* list holds a node whose address is a multiple of align; otherwise it goes to the
\* bump allocator and the free lists stay as they were, also when that returns null.
C20_HitIffAlignedNode ==
    [][ (/\ kind = "bin" /\ IsAllocStep /\ valid_layout(call'.size, call'.align)
         /\ map_to_bin(call'.size, call'.align) # None)
        => LET k   == map_to_bin(call'.size, call'.align)[1]
               has == \E i \in 1..Len(bins[k]) : bins[k][i] % call'.align = 0
           IN  /\ call'.path = "hit" <=> has
               /\ has => (call'.ret \in {bins[k][i] : i \in 1..Len(bins[k])}
                          /\ current' = current)
               /\ ~has => (call'.path = "miss" /\ bins' = bins) ]_vars

\* C20: the list held only misaligned nodes and the fallback returned null
C20_Witness ==
    /\ kind = "bin" /\ call.op = "alloc" /\ call.path = "miss" /\ call.ret = NULL
    /\ ~panicked /\ call.bin # None /\ bins[call.bin[1]] # <<>>

\* two blocks on loan overlap, or one block is on loan twice
RaceOverlap ==
    \E g \in BagToSet(granted) :
        \/ CopiesIn(g, granted) > 1
        \/ \E h \in BagToSet(granted) :
               g # h /\ ~Disjoint(g.ptr, g.size, h.ptr, h.size)

\* with no call in progress, a block carved for a class is neither on loan nor on
\* a free list
RaceLostNode ==
    /\ \A t \in Threads : race.thr[t].pc = "idle"
    /\ \E i \in 1..Len(carved) :
           /\ carved[i].bin # None
           /\ Freed(i)
           /\ carved[i].ptr \notin AllNodes

\* C15: when every operation runs under a lock, no two callers are granted
\* overlapping ranges and no free-list node is lost; without the lock, a state with
\* overlapping grants is reachable (C15_Witness) and so is one with a lost node.
C15_SafeUnderLock ==
    race.mode = "locked" => (~RaceOverlap /\ ~RaceLostNode)

\* C15: without a lock two callers hold overlapping blocks
C15_Witness ==
    /\ race.mode = "unlocked" /\ RaceOverlap
    /\ \A t \in Threads : race.thr[t].pc = "idle"

\* the list without its i-th node
Without(list, i) == SubSeq(list, 1, i - 1) \o SubSeq(list, i + 1, Len(list))

\* the indices of the nodes of list whose address is a multiple of align
Fitting(list, align) == {i \in 1..Len(list) : list[i] % align = 0}

\* C21: when the scanned list holds a node whose address satisfies the predicate,
\* alloc returns the first such node in list order and unlinks only that node: the
\* other nodes stay on the list in their order, and the other lists are unchanged.
C21_ScanTakesFirst ==
    [][ (/\ kind = "bin" /\ IsAllocStep /\ valid_layout(call'.size, call'.align)
         /\ map_to_bin(call'.size, call'.align) # None)
        => LET k    == map_to_bin(call'.size, call'.align)[1]
               fits == Fitting(bins[k], call'.align)
           IN  fits # {} =>
                   \E i \in fits :
                       /\ \A j \in fits : i <= j
                       /\ call'.ret = bins[k][i]
                       /\ bins' = [bins EXCEPT ![k] = Without(bins[k], i)] ]_vars

\* C21: a hit that left at least two nodes on the list, a misaligned one at the head
\* and an aligned one behind it: the scan had more than one node to choose from
C21_Witness ==
    /\ kind = "bin" /\ call.op = "alloc" /\ call.path = "hit" /\ call.bin # None
    /\ LET rest == bins[call.bin[1]]
       IN  /\ Len(rest) >= 2
           /\ rest[1] % call.align # 0
           /\ \E i \in 2..Len(rest) : rest[i] % call.align = 0

\* C22: a bin-allocator dealloc(ptr, L) with L mapping to class k makes ptr the head
\* of class k's list, followed by the list's previous contents in their order, and
\* leaves the bump cursor, end and every other list unchanged.
C22_DeallocPrepends ==
    [][ (/\ kind = "bin" /\ IsDeallocStep
         /\ map_to_bin(call'.size, call'.align) # None)
        => LET k == map_to_bin(call'.size, call'.align)[1]
           IN  /\ bins' = [bins EXCEPT ![k] = <<call'.ptr>> \o bins[k]]
               /\ current' = current /\ end' = end /\ start' = start
               /\ ~panicked' ]_vars

\* C22: a dealloc pushed its block in front of a node already on the list, while
\* another class's list was not empty
C22_Witness ==
    /\ kind = "bin" /\ call.op = "dealloc" /\ call.bin # None
    /\ Len(bins[call.bin[1]]) >= 2
    /\ bins[call.bin[1]][1] = call.ptr
    /\ \E k \in 0..(NumBins - 1) : k # call.bin[1] /\ bins[k] # <<>>

\* C23: the assertion of the bin allocator's dealloc (class block size >= pointer
\* width) is evaluated and holds on every dealloc that maps to a class: no such
\* dealloc panics, for the calls made, for a dealloc into each of the 14 classes in
\* any state, and for any pointer and layout.
C23_AssertionNeverFails ==
    kind = "bin" =>
        /\ (call.op = "dealloc" /\ call.bin # None) => (call.checks = 1 /\ ~panicked)
        /\ \A k \in 0..(NumBins - 1) : \A p \in {start, current} :
               LET r == bin_dealloc(current, bins, p, SIZES[k], 1)
               IN  r.bin = Some(k) /\ ~r.panic /\ r.checks = 1 /\ r.path = "push"
        /\ nops = 0 =>
               \A sz \in SampleSizes : \A al \in SampleAligns :
                   map_to_bin(sz, al) # None =>
                       LET r == bin_dealloc(current, bins, start, sz, al)
                       IN  ~r.panic /\ r.checks = 1 /\ r.path = "push"

\* C23: a dealloc of the smallest class, whose block is exactly one pointer wide
C23_Witness ==
    /\ kind = "bin" /\ call.op = "dealloc" /\ call.bin = Some(0)
    /\ call.checks = 1 /\ SIZES[0] = PtrSize /\ ~panicked

\* the largest power of two of the address width
TopPower == 2^(WordBits - 1)

\* C24: when rounding max(size, align) up to a power of two would exceed the
\* address width, map_to_bin returns no class, and alloc hands the original layout
\* to the bump allocator: same result, same cursor, lists unchanged.
C24_OverflowIsNoClass ==
    [][ /\ (/\ kind = "bin" /\ IsAllocStep /\ valid_layout(call'.size, call'.align)
            /\ max(call'.size, call'.align) > TopPower)
           => LET r == bump_alloc(current, end, call'.size, call'.align)
              IN  /\ checked_next_power_of_two(max(call'.size, call'.align)) = None
                  /\ call'.bin = None /\ call'.path = "fallback"
                  /\ call'.req = call'.size
                  /\ call'.ret = r.ret /\ current' = r.current /\ panicked' = r.panic
                  /\ bins' = bins
        /\ nops = 0 =>
              \A sz \in SampleSizes \cup {TopPower + 2, USIZE_MAX - 1} :
                  \A al \in SampleAligns :
                      max(sz, al) > TopPower => map_to_bin(sz, al) = None ]_vars

\* C24: an alloc whose size has no next power of two took the fallback
C24_Witness ==
    /\ kind = "bin" /\ call.op = "alloc" /\ call.size > TopPower
    /\ call.path = "fallback" /\ call.bin = None /\ ~panicked

\* C25: an alloc served from class k's free list removes exactly one node, the
\* returned one, from that list and changes nothing else: the bump cursor, end and
\* the lists of all other classes are unchanged.
C25_HitFrame ==
    [][ (kind = "bin" /\ IsAllocStep /\ call'.path = "hit")
        => /\ call'.bin # None
           /\ LET k == call'.bin[1]
              IN  /\ Len(bins'[k]) = Len(bins[k]) - 1
                  /\ \E i \in 1..Len(bins[k]) :
                         bins[k][i] = call'.ret /\ bins'[k] = Without(bins[k], i)
                  /\ \A j \in 0..(NumBins - 1) : j # k => bins'[j] = bins[j]
           /\ current' = current /\ end' = end /\ start' = start
           /\ ~panicked' ]_vars

\* C25: a hit that left nodes on its own list while another class's list holds nodes
C25_Witness ==
    /\ kind = "bin" /\ call.op = "alloc" /\ call.path = "hit" /\ call.bin # None
    /\ bins[call.bin[1]] # <<>>
    /\ \E k \in 0..(NumBins - 1) : k # call.bin[1] /\ bins[k] # <<>>

\* the blocks on the free lists: the node's address with its class and the class size
FreeBlocks ==
    UNION {{[ptr |-> bins[k][i], bin |-> k, size |-> SIZES[k]] : i \in 1..Len(bins[k])} :
               k \in 0..(NumBins - 1)}

\* C26: under contract-respecting use every node on class k's free list denotes a
\* block of 2^(k+3) bytes lying inside [start, cursor); the blocks on the free
\* lists are pairwise disjoint and disjoint from every granted block.
C26_FreeBlocksSound ==
    kind = "bin" =>
        /\ \A f \in FreeBlocks :
               /\ f.size = 2^(f.bin + 3)
               /\ start <= f.ptr /\ f.ptr + f.size <= current
               /\ Len(SelectSeq(bins[f.bin], LAMBDA p : p = f.ptr)) = 1
        /\ \A f, h \in FreeBlocks :
               f # h => Disjoint(f.ptr, f.size, h.ptr, h.size)
        /\ \A f \in FreeBlocks : \A g \in BagToSet(granted) :
               /\ Disjoint(f.ptr, f.size, g.ptr, g.size)
               /\ map_to_bin(g.size, g.align) # None =>
                      Disjoint(f.ptr, f.size, g.ptr, SIZES[map_to_bin(g.size, g.align)[1]])

\* C26: free blocks of two classes next to granted blocks
C26_Witness ==
    /\ kind = "bin" /\ ~panicked
    /\ \E f, h \in FreeBlocks : f.bin # h.bin
    /\ Cardinality(FreeBlocks) >= 3
    /\ granted # EmptyBag

\* C27: under contract-respecting use a block carved from the bump allocator for
\* class k is only ever on class k's list or granted to a request that maps to
\* class k; blocks are never split, merged or moved: every node and every granted
\* pointer is the start of a carved block, a block carved without a class is on no
\* list, and the record of carved blocks only grows.
C27_NoMigration ==
    [][ kind = "bin" =>
          /\ \A i \in 1..Len(carved') :
                 LET b == carved'[i]
                 IN  /\ \A k \in 0..(NumBins - 1) :
                            (\E j \in 1..Len(bins'[k]) : bins'[k][j] = b.ptr)
                                => b.bin = Some(k)
                     /\ \A g \in BagToSet(granted') :
                            g.ptr = b.ptr => map_to_bin(g.size, g.align) = b.bin
                     /\ b.bin # None => b.size = SIZES[b.bin[1]]
          /\ \A g \in BagToSet(granted') :
                 \E i \in 1..Len(carved') : carved'[i].ptr = g.ptr
          /\ \A k \in 0..(NumBins - 1) : \A j \in 1..Len(bins'[k]) :
                 \E i \in 1..Len(carved') : carved'[i].ptr = bins'[k][j]
          /\ Len(carved') >= Len(carved)
          /\ SubSeq(carved', 1, Len(carved)) = carved ]_vars

\* C27: a block carved for class 1 was freed and granted again while blocks of class 0
\* are on their list
C27_Witness ==
    /\ kind = "bin" /\ call.op = "alloc" /\ call.path = "hit" /\ call.bin = Some(1)
    /\ bins[0] # <<>>
    /\ \E i \in 1..Len(carved) : carved[i].ptr = call.ret /\ carved[i].bin = Some(1)

\* C28: once alloc(size, align) has returned null on a bump allocator, every later
\* alloc with the same size and align on that allocator returns null as well,
\* whatever calls are made in between.
C28_ExhaustionPermanent ==
    (kind = "bump" /\ call.op = "alloc" /\ <<call.size, call.align>> \in refused)
        => (call.ret = NULL /\ ~panicked)

=============================================================================
